---- MODULE Spec2Model ----
(***************************************************************************)
(* A model of the in-memory file system of src/FileSystemNode.py.          *)
(*                                                                         *)
(* The heap of FileSystemNode objects is modelled by one function per      *)
(* field, indexed by node identity (1 is the root, allocated by            *)
(* FileSystem.__init__; identities are handed out in allocation order and  *)
(* never reused, so a node unlinked by rm stays in the heap as long as     *)
(* something may still refer to it).  None is 0.  A str is a sequence of   *)
(* one-character strings, so that startswith, strip, split, rsplit,        *)
(* endswith and int are computed as Python computes them.                  *)
(*                                                                         *)
(* removed is a history variable: the nodes a successful rm has detached   *)
(* (its target and the nodes below it) that are still in the heap.         *)
(***************************************************************************)
EXTENDS Integers, Sequences, FiniteSets, TLC

VARIABLES name, is_file, parent, child, next, content, lists, current,
          pc, out, last, stdin, removed

vars == <<name, is_file, parent, child, next, content, lists, current,
          pc, out, last, stdin, removed>>

\* ------------------------------------------------------------- bounds
\* Nodes ever allocated, the root included.
MaxNodes == 3
\* Lines a file's content may hold.
MaxLines == 2
\* Nodes ever allocated, the root included, where a directory is copied
\* with the file in it.
MaxCopyNodes == 5
\* Nodes ever allocated, the root included, where a directory with two
\* children is created and copied.
MaxTreeNodes == 7

\* ------------------------------------------------------------- constants
None == 0
root == 1

\* What the commands print (out is "" when a command prints nothing).
MsgNotDir == "Path not found or not a directory."
MsgExists == "A node with that name already exists."
MsgNotTxt == "File name must end with .txt"
MsgCreated == "File created."
MsgNotFound == "Path not found."
MsgRmRoot == "Cannot remove root directory."
MsgRenameRoot == "Cannot rename root directory."
MsgMvRoot == "Cannot move root directory."
MsgSrcNotFound == "Source path not found."
MsgDstIsFile == "Destination is a file."
MsgDstHasName == "Destination already has a node with the same name."
MsgDstParent == "Destination parent path is not valid."
MsgDstExists == "A node with that name already exists in the destination."
MsgNotFile == "File not found or not a file."
MsgNotInt == "Line number must be an integer."
MsgBadLine == "Invalid line number."
MsgUsage == "Usage"
MsgRecursion == "RecursionError"

\* ------------------------------------------------------------- str
startswith(s, c) == Len(s) > 0 /\ s[1] = c

endswith(s, suf) ==
    /\ Len(s) >= Len(suf)
    /\ SubSeq(s, Len(s) - Len(suf) + 1, Len(s)) = suf

contains(s, c) == \E i \in 1..Len(s) : s[i] = c

RECURSIVE lstrip(_)
lstrip(s) == IF Len(s) > 0 /\ s[1] = "/" THEN lstrip(Tail(s)) ELSE s

RECURSIVE rstrip(_)
rstrip(s) ==
    IF Len(s) > 0 /\ s[Len(s)] = "/" THEN rstrip(SubSeq(s, 1, Len(s) - 1)) ELSE s

strip(s) == rstrip(lstrip(s))

RECURSIVE split(_)
split(s) ==
    IF contains(s, "/")
    THEN LET i == CHOOSE k \in 1..Len(s) :
                    s[k] = "/" /\ \A j \in 1..(k - 1) : s[j] # "/"
         IN  <<SubSeq(s, 1, i - 1)>> \o split(SubSeq(s, i + 1, Len(s)))
    ELSE <<s>>

\* s.rsplit('/', 1), used only where "/" in s
rsplit(s) ==
    LET i == CHOOSE k \in 1..Len(s) :
                s[k] = "/" /\ \A j \in (k + 1)..Len(s) : s[j] # "/"
    IN  <<SubSeq(s, 1, i - 1), SubSeq(s, i + 1, Len(s))>>

\* ------------------------------------------------------------- heap
\* content[n] is None for a directory and, for a file, a reference to the
\* list object holding its lines; lists maps each list object to its lines,
\* so that two nodes sharing one list is a state the model can be in.
Heap == [name |-> name, is_file |-> is_file, parent |-> parent,
         child |-> child, next |-> next, content |-> content,
         lists |-> lists, current |-> current]

Nodes(h) == DOMAIN h.name

\* The identity of the next object allocated.
NewId(h) == Cardinality(Nodes(h)) + 1

\* A list object no node refers to: the one of the node's own number when
\* that is free, so that the numbering adds no states.
NewList(h, n) ==
    LET used == {h.content[m] : m \in Nodes(h) \ {n}} IN
    IF n \notin used THEN n
    ELSE CHOOSE l \in 1..(Cardinality(Nodes(h)) + 1) :
            l \notin used /\ \A k \in 1..(l - 1) : k \in used

FileSystemNode(h, nm, isf, par) ==
    LET id == NewId(h) IN
    [h EXCEPT !.name = @ @@ (id :> nm),
              !.is_file = @ @@ (id :> isf),
              !.parent = @ @@ (id :> par),
              !.child = @ @@ (id :> None),
              !.next = @ @@ (id :> None),
              !.content = @ @@ (id :> IF isf THEN NewList(h, id) ELSE None),
              !.lists = IF isf THEN (NewList(h, id) :> <<>>) @@ @ ELSE @]

add_child(h, p, c) ==
    [h EXCEPT !.next[c] = h.child[p], !.child[p] = c]

RECURSIVE find_from(_, _, _, _)
find_from(h, cur, nm, fuel) ==
    IF cur = None \/ fuel = 0 THEN None
    ELSE IF h.name[cur] = nm THEN cur
    ELSE find_from(h, h.next[cur], nm, fuel - 1)

find_child(h, p, nm) == find_from(h, h.child[p], nm, Cardinality(Nodes(h)))

\* the loop with ".." at a node without parent taken for a failure
RECURSIVE walk_unclamped(_, _, _)
walk_unclamped(h, node, parts) ==
    IF parts = <<>> THEN node
    ELSE LET part == Head(parts) IN
         IF part = <<>> \/ part = <<".">> THEN walk_unclamped(h, node, Tail(parts))
         ELSE IF part = <<".", ".">>
         THEN IF h.parent[node] # None
              THEN walk_unclamped(h, h.parent[node], Tail(parts))
              ELSE None
         ELSE LET nxt == find_child(h, node, part) IN
              IF nxt = None THEN None ELSE walk_unclamped(h, nxt, Tail(parts))

RECURSIVE walk(_, _, _)
walk(h, node, parts) ==
    IF parts = <<>> THEN node
    ELSE LET part == Head(parts) IN
         IF part = <<>> \/ part = <<".">> THEN walk(h, node, Tail(parts))
         ELSE IF part = <<".", ".">>
         THEN walk(h, IF h.parent[node] # None THEN h.parent[node] ELSE node,
                   Tail(parts))
         ELSE LET nxt == find_child(h, node, part) IN
              IF nxt = None THEN None ELSE walk(h, nxt, Tail(parts))

get_node_by_path(h, path) ==
    IF startswith(path, "/")
    THEN IF path = <<"/">> THEN root
         ELSE walk(h, root, split(strip(path)))
    ELSE walk(h, h.current, split(path))

\* The nodes of the sibling list that starts at cur.
RECURSIVE list_from(_, _, _)
list_from(h, cur, fuel) ==
    IF cur = None \/ fuel = 0 THEN {}
    ELSE {cur} \cup list_from(h, h.next[cur], fuel - 1)

Kids(h, d) == list_from(h, h.child[d], Cardinality(Nodes(h)))

RECURSIVE grow(_, _, _)
grow(h, S, k) ==
    IF k = 0 THEN S
    ELSE grow(h, S \cup UNION {Kids(h, x) : x \in S}, k - 1)

\* The nodes below n: what a recursion over child and next visits.
Below(h, n) == grow(h, Kids(h, n), Cardinality(Nodes(h)))

\* A recursion over the subtree of n (remove_subtree, deep_copy) never
\* returns when the subtree holds a node that is below itself: Python
\* raises RecursionError.
Diverges(h, n) == \E x \in {n} \cup Below(h, n) : x \in Below(h, x)

\* The children of d in the order ls_command lists them: the walk from
\* d.child along next (cut off once it has gone through more nodes than
\* there are).
RECURSIVE seq_from(_, _, _)
seq_from(h, cur, fuel) ==
    IF cur = None \/ fuel = 0 THEN <<>>
    ELSE <<cur>> \o seq_from(h, h.next[cur], fuel - 1)

children(h, d) == seq_from(h, h.child[d], Cardinality(Nodes(h)) + 1)

\* What ls_command lists for the directory node: the names of its children
\* in order, a directory's name with "/" after it.
ls_command(h, node) ==
    [i \in 1..Len(children(h, node)) |->
        LET c == children(h, node)[i] IN
        IF h.is_file[c] THEN h.name[c] ELSE h.name[c] \o <<"/">>]

\* The garbage collector: an object neither root nor current leads to,
\* through any field, is gone; its identity is not reused.
RECURSIVE refs(_, _)
refs(h, S) ==
    LET T == ({h.parent[x] : x \in S} \cup {h.child[x] : x \in S}
              \cup {h.next[x] : x \in S}) \ {None}
    IN  IF T \subseteq S THEN S ELSE refs(h, S \cup T)

Live(h) == refs(h, {root, h.current})

free(h, live) ==
    LET cont == [n \in Nodes(h) |-> IF n \in live THEN h.content[n] ELSE None]
    IN  [h EXCEPT !.name = [n \in Nodes(h) |-> IF n \in live THEN @[n] ELSE <<>>],
                  !.is_file = [n \in Nodes(h) |-> n \in live /\ @[n]],
                  !.parent = [n \in Nodes(h) |-> IF n \in live THEN @[n] ELSE None],
                  !.child = [n \in Nodes(h) |-> IF n \in live THEN @[n] ELSE None],
                  !.next = [n \in Nodes(h) |-> IF n \in live THEN @[n] ELSE None],
                  !.content = cont,
                  !.lists = [l \in {cont[n] : n \in Nodes(h)} \ {None}
                                |-> h.lists[l]]]

collect(h) ==
    IF /\ \A n \in Nodes(h) \ Live(h) : h.name[n] = <<>>
       /\ DOMAIN h.lists = {h.content[n] : n \in Nodes(h)} \ {None}
    THEN h
    ELSE free(h, Live(h))

\* ------------------------------------------------------------- commands
\* A command maps the heap and its argument list (args[1] is the command
\* word, so Python's args[k] is args[k + 1] here) to the heap it leaves
\* and the message it prints (and, for cat, the lines it prints; for a call
\* of get_node_by_path, the node it returns).
Ret(h, msg) == [h |-> h, out |-> msg, lines |-> <<>>, node |-> None]

\* mkdir with the sibling check dropped
mkdir_unchecked(h, args) ==
    IF Len(args) \notin {2, 3} THEN Ret(h, MsgUsage)
    ELSE LET target == IF Len(args) = 2 THEN h.current
                       ELSE get_node_by_path(h, args[2])
         IN  IF Len(args) = 3 /\ (target = None \/ h.is_file[target])
             THEN Ret(h, MsgNotDir)
             ELSE Ret(add_child(FileSystemNode(h, args[Len(args)], FALSE,
                                               target),
                                target, NewId(h)), "")

\* mkdir that does not look at the kind of the node its path names
mkdir_under_file(h, args) ==
    IF Len(args) \notin {2, 3} THEN Ret(h, MsgUsage)
    ELSE LET target == IF Len(args) = 2 THEN h.current
                       ELSE get_node_by_path(h, args[2])
             folder_name == args[Len(args)]
         IN  IF Len(args) = 3 /\ target = None
             THEN Ret(h, MsgNotDir)
             ELSE IF find_child(h, target, folder_name) # None
             THEN Ret(h, MsgExists)
             ELSE Ret(add_child(FileSystemNode(h, folder_name, FALSE, target),
                                target, NewId(h)), "")

mkdir_command(h, args) ==
    IF Len(args) \notin {2, 3} THEN Ret(h, MsgUsage)
    ELSE LET target == IF Len(args) = 2 THEN h.current
                       ELSE get_node_by_path(h, args[2])
             folder_name == args[Len(args)]
         IN  IF Len(args) = 3 /\ (target = None \/ h.is_file[target])
             THEN Ret(h, MsgNotDir)
             ELSE IF find_child(h, target, folder_name) # None
             THEN Ret(h, MsgExists)
             ELSE Ret(add_child(FileSystemNode(h, folder_name, FALSE, target),
                                target, NewId(h)), "")

touch_command(h, args) ==
    IF Len(args) \notin {2, 3} THEN Ret(h, MsgUsage)
    ELSE LET target == IF Len(args) = 2 THEN h.current
                       ELSE get_node_by_path(h, args[2])
             file_name == args[Len(args)]
         IN  IF Len(args) = 3 /\ (target = None \/ h.is_file[target])
             THEN Ret(h, MsgNotDir)
             ELSE IF ~endswith(file_name, <<".", "t", "x", "t">>)
             THEN Ret(h, MsgNotTxt)
             ELSE IF find_child(h, target, file_name) # None
             THEN Ret(h, MsgExists)
             ELSE Ret(add_child(FileSystemNode(h, file_name, TRUE, target),
                                target, NewId(h)), MsgCreated)

\* A call of get_node_by_path by the caller of the file system: the node
\* it returns; there is no assignment to a field in it.
resolve(h, args) ==
    [h |-> h, out |-> "", lines |-> <<>>,
     node |-> get_node_by_path(h, args[2])]

cd_command(h, args) ==
    IF Len(args) # 2 THEN Ret(h, MsgUsage)
    ELSE LET new_dir == get_node_by_path(h, args[2]) IN
         IF new_dir = None \/ h.is_file[new_dir] THEN Ret(h, MsgNotDir)
         ELSE Ret([h EXCEPT !.current = new_dir], "")

\* The loop "while curr and curr.next != target: curr = curr.next".
RECURSIVE before(_, _, _, _)
before(h, curr, target, fuel) ==
    IF curr = None \/ fuel = 0 THEN None
    ELSE IF h.next[curr] = target THEN curr
    ELSE before(h, h.next[curr], target, fuel - 1)

\* Lines 170-178, 286-294 and 313-321: take target out of the sibling list
\* of its parent.
unlink(h, target) ==
    LET p == h.parent[target] IN
    IF h.child[p] = target THEN [h EXCEPT !.child[p] = h.next[target]]
    ELSE LET curr == before(h, h.child[p], target, Cardinality(Nodes(h))) IN
         IF curr # None THEN [h EXCEPT !.next[curr] = h.next[target]] ELSE h

\* remove_subtree changes nothing: it only visits the subtree.
remove_subtree(h, node) ==
    IF Diverges(h, node) THEN Ret(h, MsgRecursion) ELSE Ret(h, "")

rm_command(h, args) ==
    IF Len(args) # 2 THEN Ret(h, MsgUsage)
    ELSE LET target == get_node_by_path(h, args[2]) IN
         IF target = None THEN Ret(h, MsgNotFound)
         ELSE IF h.parent[target] = None THEN Ret(h, MsgRmRoot)
         ELSE remove_subtree(unlink(h, target), target)

\* rename with the sibling check dropped
rename_unchecked(h, args) ==
    IF Len(args) # 3 THEN Ret(h, MsgUsage)
    ELSE LET target == get_node_by_path(h, args[2]) IN
         IF target = None THEN Ret(h, MsgNotFound)
         ELSE IF h.parent[target] = None THEN Ret(h, MsgRenameRoot)
         ELSE Ret([h EXCEPT !.name[target] = args[3]], "")

\* rename with the root guarded against the sibling check only
rename_root_too(h, args) ==
    IF Len(args) # 3 THEN Ret(h, MsgUsage)
    ELSE LET target == get_node_by_path(h, args[2]) IN
         IF target = None THEN Ret(h, MsgNotFound)
         ELSE IF h.parent[target] # None
                 /\ find_child(h, h.parent[target], args[3]) # None
         THEN Ret(h, MsgExists)
         ELSE Ret([h EXCEPT !.name[target] = args[3]], "")

rename_command(h, args) ==
    IF Len(args) # 3 THEN Ret(h, MsgUsage)
    ELSE LET target == get_node_by_path(h, args[2])
             new_name == args[3]
         IN  IF target = None THEN Ret(h, MsgNotFound)
             ELSE IF h.parent[target] = None THEN Ret(h, MsgRenameRoot)
             ELSE IF find_child(h, h.parent[target], new_name) # None
             THEN Ret(h, MsgExists)
             ELSE Ret([h EXCEPT !.name[target] = new_name], "")

\* copy_node.content = node.content : the list object of the source
copy_content_shared(h, copy_node, node) ==
    [h EXCEPT !.content[copy_node] = h.content[node]]

\* copy_node.content = node.content[:] : a new list object with the lines
copy_content(h, copy_node, node) ==
    [h EXCEPT !.lists[h.content[copy_node]] = h.lists[h.content[node]]]

RECURSIVE deep_copy(_, _, _), copy_children(_, _, _)
deep_copy(h, node, new_parent) ==
    LET id == NewId(h)
        h1 == FileSystemNode(h, h.name[node], h.is_file[node], new_parent)
        h2 == IF h.is_file[node] THEN copy_content(h1, id, node) ELSE h1
    IN  [h |-> copy_children(h2, h.child[node], id), id |-> id]

copy_children(h, c, copy_node) ==
    IF c = None THEN h
    ELSE LET r == deep_copy(h, c, copy_node) IN
         copy_children(add_child(r.h, copy_node, r.id), r.h.next[c], copy_node)

\* The destination of cp and mv when args[2] does not resolve: the parent
\* path and the new name.
dest_parts(path) ==
    IF contains(path, "/")
    THEN LET parts == rsplit(path) IN
         [parent_path |-> IF parts[1] # <<>> THEN parts[1] ELSE <<"/">>,
          new_name |-> parts[2]]
    ELSE [parent_path |-> <<".">>, new_name |-> path]

\* cp that gives the new name to the source instead of the copy
cp_names_source(h, args) ==
    IF Len(args) # 3 THEN Ret(h, MsgUsage)
    ELSE LET src == get_node_by_path(h, args[2])
             dst == get_node_by_path(h, args[3])
         IN
         IF src = None THEN Ret(h, MsgSrcNotFound)
         ELSE IF dst # None
         THEN IF h.is_file[dst] THEN Ret(h, MsgDstIsFile)
              ELSE IF find_child(h, dst, h.name[src]) # None
              THEN Ret(h, MsgDstHasName)
              ELSE IF Diverges(h, src) THEN Ret(h, MsgRecursion)
              ELSE LET r == deep_copy(h, src, dst) IN
                   Ret(add_child(r.h, dst, r.id), "")
         ELSE LET d == dest_parts(args[3])
                  parent_dst == get_node_by_path(h, d.parent_path)
              IN  IF parent_dst = None \/ h.is_file[parent_dst]
                  THEN Ret(h, MsgDstParent)
                  ELSE IF find_child(h, parent_dst, d.new_name) # None
                  THEN Ret(h, MsgDstExists)
                  ELSE IF Diverges(h, src) THEN Ret(h, MsgRecursion)
                  ELSE LET r == deep_copy(h, src, parent_dst) IN
                       Ret(add_child([r.h EXCEPT !.name[src] = d.new_name],
                                     parent_dst, r.id), "")

cp_command(h, args) ==
    IF Len(args) # 3 THEN Ret(h, MsgUsage)
    ELSE LET src == get_node_by_path(h, args[2])
             dst == get_node_by_path(h, args[3])
         IN
         IF src = None THEN Ret(h, MsgSrcNotFound)
         ELSE IF dst # None
         THEN IF h.is_file[dst] THEN Ret(h, MsgDstIsFile)
              ELSE IF find_child(h, dst, h.name[src]) # None
              THEN Ret(h, MsgDstHasName)
              ELSE IF Diverges(h, src) THEN Ret(h, MsgRecursion)
              ELSE LET r == deep_copy(h, src, dst) IN
                   Ret(add_child(r.h, dst, r.id), "")
         ELSE LET d == dest_parts(args[3])
                  parent_dst == get_node_by_path(h, d.parent_path)
              IN  IF parent_dst = None \/ h.is_file[parent_dst]
                  THEN Ret(h, MsgDstParent)
                  ELSE IF find_child(h, parent_dst, d.new_name) # None
                  THEN Ret(h, MsgDstExists)
                  ELSE IF Diverges(h, src) THEN Ret(h, MsgRecursion)
                  ELSE LET r == deep_copy(h, src, parent_dst) IN
                       Ret(add_child([r.h EXCEPT !.name[r.id] = d.new_name],
                                     parent_dst, r.id), "")

\* mv that leaves the source in the sibling list it was in
attach_keeps_link(h, src, dst, nm) ==
    [h EXCEPT !.parent[src] = dst,
              !.name[src] = nm,
              !.next[src] = h.child[dst],
              !.child[dst] = src]

\* Lines 286-297 and 313-325: unlink src, then put it at the head of dst's
\* children under the name nm.
attach(h, src, dst, nm) ==
    LET u == unlink(h, src) IN
    [u EXCEPT !.parent[src] = dst,
              !.name[src] = nm,
              !.next[src] = u.child[dst],
              !.child[dst] = src]

\* mv that unlinks the source before it has checked the destination
mv_unlinks_first(h, args) ==
    IF Len(args) # 3 THEN Ret(h, MsgUsage)
    ELSE LET src == get_node_by_path(h, args[2])
             dst == get_node_by_path(h, args[3])
         IN
         IF src = None THEN Ret(h, MsgSrcNotFound)
         ELSE IF h.parent[src] = None THEN Ret(h, MsgMvRoot)
         ELSE IF dst # None
         THEN IF h.is_file[dst] THEN Ret(unlink(h, src), MsgDstIsFile)
              ELSE IF find_child(h, dst, h.name[src]) # None
              THEN Ret(unlink(h, src), MsgDstHasName)
              ELSE Ret(attach(h, src, dst, h.name[src]), "")
         ELSE LET d == dest_parts(args[3])
                  parent_dst == get_node_by_path(h, d.parent_path)
              IN  IF parent_dst = None \/ h.is_file[parent_dst]
                  THEN Ret(unlink(h, src), MsgDstParent)
                  ELSE IF find_child(h, parent_dst, d.new_name) # None
                  THEN Ret(unlink(h, src), MsgDstExists)
                  ELSE Ret(attach(h, src, parent_dst, d.new_name), "")

mv_command(h, args) ==
    IF Len(args) # 3 THEN Ret(h, MsgUsage)
    ELSE LET src == get_node_by_path(h, args[2])
             dst == get_node_by_path(h, args[3])
         IN
         IF src = None THEN Ret(h, MsgSrcNotFound)
         ELSE IF h.parent[src] = None THEN Ret(h, MsgMvRoot)
         ELSE IF dst # None
         THEN IF h.is_file[dst] THEN Ret(h, MsgDstIsFile)
              ELSE IF find_child(h, dst, h.name[src]) # None
              THEN Ret(h, MsgDstHasName)
              ELSE Ret(attach(h, src, dst, h.name[src]), "")
         ELSE LET d == dest_parts(args[3])
                  parent_dst == get_node_by_path(h, d.parent_path)
              IN  IF parent_dst = None \/ h.is_file[parent_dst]
                  THEN Ret(h, MsgDstParent)
                  ELSE IF find_child(h, parent_dst, d.new_name) # None
                  THEN Ret(h, MsgDstExists)
                  ELSE Ret(attach(h, src, parent_dst, d.new_name), "")

\* line.strip(): the line without the blanks at its ends
RECURSIVE ws_lstrip(_)
ws_lstrip(s) == IF Len(s) > 0 /\ s[1] = " " THEN ws_lstrip(Tail(s)) ELSE s

RECURSIVE ws_rstrip(_)
ws_rstrip(s) ==
    IF Len(s) > 0 /\ s[Len(s)] = " "
    THEN ws_rstrip(SubSeq(s, 1, Len(s) - 1)) ELSE s

End == <<"/", "e", "n", "d", "/">>

\* The lines input() returns up to the line that is "/end/" once stripped.
RECURSIVE read_lines(_)
read_lines(stream) ==
    IF stream = <<>> \/ ws_rstrip(ws_lstrip(Head(stream))) = End THEN <<>>
    ELSE <<Head(stream)>> \o read_lines(Tail(stream))

nwfiletxt_command(h, args, stream) ==
    IF Len(args) # 2 THEN Ret(h, MsgUsage)
    ELSE LET node == get_node_by_path(h, args[2]) IN
         IF node = None \/ ~h.is_file[node] THEN Ret(h, MsgNotFile)
         ELSE LET new_lines == NewList(h, node) IN
              Ret([h EXCEPT !.content[node] = new_lines,
                            !.lists = (new_lines :> read_lines(stream)) @@ @],
                  "")

appendtxt_command(h, args, stream) ==
    IF Len(args) # 2 THEN Ret(h, MsgUsage)
    ELSE LET node == get_node_by_path(h, args[2]) IN
         IF node = None \/ ~h.is_file[node] THEN Ret(h, MsgNotFile)
         ELSE Ret([h EXCEPT !.lists[h.content[node]] = @ \o read_lines(stream)],
                  "")

\* int(s) for a decimal numeral with an optional sign; ok is FALSE where
\* Python raises ValueError.
Digits == <<"0", "1", "2", "3", "4", "5", "6", "7", "8", "9">>
IsDigit(c) == \E d \in 1..10 : Digits[d] = c
DigitVal(c) == (CHOOSE d \in 1..10 : Digits[d] = c) - 1

RECURSIVE digits_value(_, _)
digits_value(s, acc) ==
    IF s = <<>> THEN acc ELSE digits_value(Tail(s), 10 * acc + DigitVal(Head(s)))

int(s) ==
    LET signed == Len(s) > 0 /\ s[1] \in {"-", "+"}
        body == IF signed THEN Tail(s) ELSE s
    IN  IF body = <<>> \/ \E i \in 1..Len(body) : ~IsDigit(body[i])
        THEN [ok |-> FALSE, val |-> 0]
        ELSE [ok |-> TRUE,
              val |-> IF signed /\ s[1] = "-" THEN 0 - digits_value(body, 0)
                      ELSE digits_value(body, 0)]

\* " ".join(words)
RECURSIVE join(_)
join(words) ==
    IF Len(words) = 0 THEN <<>>
    ELSE IF Len(words) = 1 THEN words[1]
    ELSE words[1] \o <<" ">> \o join(Tail(words))

RemoveAt(s, i) == SubSeq(s, 1, i - 1) \o SubSeq(s, i + 1, Len(s))

editline_command(h, args) ==
    IF Len(args) < 4 THEN Ret(h, MsgUsage)
    ELSE LET node == get_node_by_path(h, args[2])
             line_number == int(args[3])
         IN
         IF node = None \/ ~h.is_file[node] THEN Ret(h, MsgNotFile)
         ELSE IF ~line_number.ok THEN Ret(h, MsgNotInt)
         ELSE IF line_number.val < 1
                 \/ line_number.val > Len(h.lists[h.content[node]])
         THEN Ret(h, MsgBadLine)
         ELSE Ret([h EXCEPT !.lists[h.content[node]][line_number.val] =
                                join(SubSeq(args, 4, Len(args)))], "")

\* deline that takes the line number for a 0-based index
deline_zero_based(h, args) ==
    IF Len(args) # 3 THEN Ret(h, MsgUsage)
    ELSE LET node == get_node_by_path(h, args[2])
             line_number == int(args[3])
         IN
         IF node = None \/ ~h.is_file[node] THEN Ret(h, MsgNotFile)
         ELSE IF ~line_number.ok THEN Ret(h, MsgNotInt)
         ELSE IF line_number.val < 1
                 \/ line_number.val > Len(h.lists[h.content[node]])
         THEN Ret(h, MsgBadLine)
         ELSE Ret([h EXCEPT !.lists[h.content[node]] =
                                RemoveAt(@, line_number.val + 1)], "")

deline_command(h, args) ==
    IF Len(args) # 3 THEN Ret(h, MsgUsage)
    ELSE LET node == get_node_by_path(h, args[2])
             line_number == int(args[3])
         IN
         IF node = None \/ ~h.is_file[node] THEN Ret(h, MsgNotFile)
         ELSE IF ~line_number.ok THEN Ret(h, MsgNotInt)
         ELSE IF line_number.val < 1
                 \/ line_number.val > Len(h.lists[h.content[node]])
         THEN Ret(h, MsgBadLine)
         ELSE Ret([h EXCEPT !.lists[h.content[node]] =
                                RemoveAt(@, line_number.val)], "")

\* cat prints the lines; the heap is as it was.
cat_command(h, args) ==
    IF Len(args) # 2 THEN Ret(h, MsgUsage)
    ELSE LET node == get_node_by_path(h, args[2]) IN
         IF node = None \/ ~h.is_file[node] THEN Ret(h, MsgNotFile)
         ELSE [h |-> h, out |-> "", lines |-> h.lists[h.content[node]],
               node |-> None]

\* "/".join(words)
RECURSIVE join_slash(_)
join_slash(words) ==
    IF Len(words) = 0 THEN <<>>
    ELSE IF Len(words) = 1 THEN words[1]
    ELSE words[1] \o <<"/">> \o join_slash(Tail(words))

\* The loop of get_full_path: the names met from node up along parent,
\* topmost first.  A walk that has gone through more nodes than there are
\* is in a cycle of parent references and never ends: ok is FALSE.
RECURSIVE path_parts(_, _, _, _)
path_parts(h, node, parts, fuel) ==
    IF node = None THEN [ok |-> TRUE, parts |-> parts]
    ELSE IF fuel = 0 THEN [ok |-> FALSE, parts |-> <<>>]
    ELSE path_parts(h, h.parent[node], <<h.name[node]>> \o parts, fuel - 1)

get_full_path(h, node) ==
    LET r == path_parts(h, node, <<>>, Cardinality(Nodes(h))) IN
    [ok |-> r.ok,
     path |-> IF Len(r.parts) > 1 THEN <<"/">> \o join_slash(Tail(r.parts))
              ELSE <<"/">>]

\* ------------------------------------------------------------- inputs
A == <<"a">>
B == <<"b">>
F == <<"f", ".", "t", "x", "t">>
Slash == <<"/">>
Dot == <<".">>
DotDot == <<".", ".">>
AB == A \o Slash \o B
AF == A \o Slash \o F
SlashA == Slash \o A

\* The paths the claims quantify over.
Paths == {Slash, Dot, DotDot, A, B, F, SlashA, AB, AF}

\* The argument lists given to each command: the command word alone (a
\* usage error) and the forms the code distinguishes.
MkdirArgs == {<<"mkdir">>, <<"mkdir", A>>, <<"mkdir", B>>, <<"mkdir", F>>,
              <<"mkdir", A, B>>, <<"mkdir", F, A>>, <<"mkdir", B, A>>}
TouchArgs == {<<"touch">>, <<"touch", F>>, <<"touch", A>>,
              <<"touch", A, F>>, <<"touch", F, F>>, <<"touch", B, F>>}
CdArgs == {<<"cd">>} \cup {<<"cd", p>> : p \in {Slash, DotDot, A, F, AB}}
RmArgs == {<<"rm">>}
          \cup {<<"rm", p>> : p \in {Slash, Dot, DotDot, A, SlashA, F, AB}}
RenameArgs == {<<"rename">>, <<"rename", A, B>>, <<"rename", B, A>>,
               <<"rename", Slash, B>>, <<"rename", DotDot, B>>,
               <<"rename", F, A>>}
CpArgs == {<<"cp">>}
          \cup {<<"cp", p, q>> : p \in {A, F, Slash, AF}, q \in {A, B, Slash, F}}
MvArgs == {<<"mv">>}
          \cup {<<"mv", p, q>> : p \in {A, Dot, Slash, AB, F},
                                 q \in {A, B, Slash, AB, DotDot, F}}

\* Paths given to get_node_by_path on its own: chains of ".." and paths
\* of names.
DotDotChains == {DotDot, DotDot \o Slash \o DotDot, Slash \o DotDot,
                 Slash \o DotDot \o Slash \o DotDot}
ResolveArgs == {<<"resolve", p>> : p \in DotDotChains \cup {A, AB}}

\* Input streams, the words of a new line and line-number arguments.
X == <<"x">>
Y == <<"y">>
Streams == {<<X, End>>}
Texts == {<<Y>>}
Numbers == {<<"0">>, <<"1">>, <<"2">>, <<"x">>}

NwfiletxtArgs == {<<"nwfiletxt">>, <<"nwfiletxt", F>>, <<"nwfiletxt", A>>}
AppendtxtArgs == {<<"appendtxt">>, <<"appendtxt", F>>, <<"appendtxt", A>>}
EditlineArgs == {<<"editline">>}
                \cup {<<"editline", p, n>> \o t :
                        p \in {F, A}, n \in Numbers, t \in Texts}
DelineArgs == {<<"deline">>}
              \cup {<<"deline", p, n>> : p \in {F, A}, n \in Numbers}
CatArgs == {<<"cat">>, <<"cat", F>>, <<"cat", A>>}

\* The argument lists of the specification that copies a directory with
\* its file and then edits both files.
BF == B \o Slash \o F
Z == <<"z">>
EditPaths == {F, AF, BF}
CopyMkdirArgs == {<<"mkdir", A>>}
CopyTouchArgs == {<<"touch", F>>, <<"touch", A, F>>}
CopyCpArgs == {<<"cp", A, B>>, <<"cp", F, A>>, <<"cp", A, A>>, <<"cp", AF, Slash>>}
CopyNwfiletxtArgs == {<<"nwfiletxt", p>> : p \in EditPaths}
CopyAppendtxtArgs == {<<"appendtxt", p>> : p \in EditPaths}
CopyStreams == {<<X, End>>, <<X, Y, End>>}
CopyNumbers == {<<"0">>, <<"1">>, <<"2">>, <<"3">>, <<"-", "1">>, <<"x">>}
CopyEditlineArgs == {<<"editline", p, n, Z, Y>> : p \in EditPaths, n \in CopyNumbers}
CopyDelineArgs == {<<"deline", p, n>> : p \in EditPaths, n \in CopyNumbers}
CopyCatArgs == {<<"cat", p>> : p \in EditPaths}

\* The argument lists of the specification that builds a directory with
\* two children and copies it: a name may hold a "/" (touch a/f.txt gives
\* args[1] = "a/f.txt").
TreeMkdirArgs == {<<"mkdir", A>>, <<"mkdir", A, B>>}
TreeTouchArgs == {<<"touch", F>>, <<"touch", A>>, <<"touch", AF>>,
                  <<"touch", A, F>>, <<"touch", A, B>>, <<"touch", F, F>>}
TreeCpArgs == {<<"cp", A, B>>, <<"cp", A, A>>, <<"cp", A, AB>>, <<"cp", AF, A>>}
TreeCatArgs == {<<"cat", F>>, <<"cat", AF>>}

\* ------------------------------------------------------------- actions
\* The nodes a call detaches by rm: the target and the nodes below it.
Detached(r, args) ==
    IF args[1] = "rm" /\ Len(args) = 2 /\ r.out = ""
    THEN LET target == get_node_by_path(Heap, args[2]) IN
         {target} \cup Below(Heap, target)
    ELSE {}

\* A call of a command, made when the caller is at the prompt: the heap it
\* leaves, after the garbage collector has run, what it printed, and the
\* argument list and the input lines it was given.
Apply(r, args, input) ==
    LET h == IF r.h = Heap THEN r.h ELSE collect(r.h) IN
    /\ removed' = IF r.h = Heap THEN removed
                  ELSE (removed \cup Detached(r, args)) \cap Live(h)
    /\ pc' = "ran"
    /\ name' = h.name
    /\ is_file' = h.is_file
    /\ parent' = h.parent
    /\ child' = h.child
    /\ next' = h.next
    /\ content' = h.content
    /\ lists' = h.lists
    /\ current' = h.current
    /\ out' = [msg |-> r.out, lines |-> r.lines, node |-> r.node]
    /\ last' = args
    /\ stdin' = input

\* The bounds of the model: nodes allocated and lines per file.
Fits(r) ==
    /\ Cardinality(Nodes(r.h)) <= MaxNodes
    /\ \A l \in DOMAIN r.h.lists : Len(r.h.lists[l]) <= MaxLines

Init ==
    /\ name = (root :> <<"r", "o", "o", "t">>)
    /\ is_file = (root :> FALSE)
    /\ parent = (root :> None)
    /\ child = (root :> None)
    /\ next = (root :> None)
    /\ content = (root :> None)
    /\ lists = <<>>
    /\ current = root
    /\ pc = "prompt"
    /\ out = [msg |-> "", lines |-> <<>>, node |-> None]
    /\ last = <<>>
    /\ stdin = <<>>
    /\ removed = {}

Mkdir ==
    /\ pc = "prompt"
    /\ \E args \in MkdirArgs :
        LET r == mkdir_command(Heap, args) IN Fits(r) /\ Apply(r, args, <<>>)

Touch ==
    /\ pc = "prompt"
    /\ \E args \in TouchArgs :
        LET r == touch_command(Heap, args) IN Fits(r) /\ Apply(r, args, <<>>)

Cd ==
    /\ pc = "prompt"
    /\ \E args \in CdArgs : Apply(cd_command(Heap, args), args, <<>>)

Rm ==
    /\ pc = "prompt"
    /\ \E args \in RmArgs : Apply(rm_command(Heap, args), args, <<>>)

Rename ==
    /\ pc = "prompt"
    /\ \E args \in RenameArgs : Apply(rename_command(Heap, args), args, <<>>)

Cp ==
    /\ pc = "prompt"
    /\ \E args \in CpArgs :
        LET r == cp_command(Heap, args) IN Fits(r) /\ Apply(r, args, <<>>)

Mv ==
    /\ pc = "prompt"
    /\ \E args \in MvArgs : Apply(mv_command(Heap, args), args, <<>>)

Nwfiletxt ==
    /\ pc = "prompt"
    /\ \E args \in NwfiletxtArgs, stream \in Streams :
        LET r == nwfiletxt_command(Heap, args, stream) IN
        Fits(r) /\ Apply(r, args, stream)

Appendtxt ==
    /\ pc = "prompt"
    /\ \E args \in AppendtxtArgs, stream \in Streams :
        LET r == appendtxt_command(Heap, args, stream) IN
        Fits(r) /\ Apply(r, args, stream)

Editline ==
    /\ pc = "prompt"
    /\ \E args \in EditlineArgs : Apply(editline_command(Heap, args), args, <<>>)

Deline ==
    /\ pc = "prompt"
    /\ \E args \in DelineArgs : Apply(deline_command(Heap, args), args, <<>>)

Cat ==
    /\ pc = "prompt"
    /\ \E args \in CatArgs : Apply(cat_command(Heap, args), args, <<>>)

Resolve ==
    /\ pc = "prompt"
    /\ \E args \in ResolveArgs : Apply(resolve(Heap, args), args, <<>>)

\* The command has returned: the caller is back at the prompt.
Return ==
    /\ pc = "ran"
    /\ pc' = "prompt"
    /\ out' = [msg |-> "", lines |-> <<>>, node |-> None]
    /\ last' = <<>>
    /\ stdin' = <<>>
    /\ UNCHANGED <<name, is_file, parent, child, next, content, lists, current,
                   removed>>

\* The same commands, given the argument lists above.
FitsCopy(r) ==
    /\ Cardinality(Nodes(r.h)) <= MaxCopyNodes
    /\ \A l \in DOMAIN r.h.lists : Len(r.h.lists[l]) <= MaxLines

CopyMkdir ==
    /\ pc = "prompt"
    /\ \E args \in CopyMkdirArgs :
        LET r == mkdir_command(Heap, args) IN FitsCopy(r) /\ Apply(r, args, <<>>)

CopyTouch ==
    /\ pc = "prompt"
    /\ \E args \in CopyTouchArgs :
        LET r == touch_command(Heap, args) IN FitsCopy(r) /\ Apply(r, args, <<>>)

CopyCp ==
    /\ pc = "prompt"
    /\ \E args \in CopyCpArgs :
        LET r == cp_command(Heap, args) IN FitsCopy(r) /\ Apply(r, args, <<>>)

CopyNwfiletxt ==
    /\ pc = "prompt"
    /\ \E args \in CopyNwfiletxtArgs, stream \in CopyStreams :
        LET r == nwfiletxt_command(Heap, args, stream) IN
        FitsCopy(r) /\ Apply(r, args, stream)

CopyAppendtxt ==
    /\ pc = "prompt"
    /\ \E args \in CopyAppendtxtArgs, stream \in CopyStreams :
        LET r == appendtxt_command(Heap, args, stream) IN
        FitsCopy(r) /\ Apply(r, args, stream)

CopyEditline ==
    /\ pc = "prompt"
    /\ \E args \in CopyEditlineArgs :
        Apply(editline_command(Heap, args), args, <<>>)

CopyDeline ==
    /\ pc = "prompt"
    /\ \E args \in CopyDelineArgs :
        Apply(deline_command(Heap, args), args, <<>>)

CopyCat ==
    /\ pc = "prompt"
    /\ \E args \in CopyCatArgs : Apply(cat_command(Heap, args), args, <<>>)

NextCopy ==
    \/ Return
    \/ CopyMkdir \/ CopyTouch \/ CopyCp
    \/ CopyNwfiletxt \/ CopyAppendtxt \/ CopyEditline \/ CopyDeline \/ CopyCat

\* The same commands, given the argument lists of the tree specification.
FitsTree(r) == Cardinality(Nodes(r.h)) <= MaxTreeNodes

TreeMkdir ==
    /\ pc = "prompt"
    /\ \E args \in TreeMkdirArgs :
        LET r == mkdir_command(Heap, args) IN FitsTree(r) /\ Apply(r, args, <<>>)

TreeTouch ==
    /\ pc = "prompt"
    /\ \E args \in TreeTouchArgs :
        LET r == touch_command(Heap, args) IN FitsTree(r) /\ Apply(r, args, <<>>)

TreeCp ==
    /\ pc = "prompt"
    /\ \E args \in TreeCpArgs :
        LET r == cp_command(Heap, args) IN FitsTree(r) /\ Apply(r, args, <<>>)

TreeCat ==
    /\ pc = "prompt"
    /\ \E args \in TreeCatArgs : Apply(cat_command(Heap, args), args, <<>>)

NextTree == Return \/ TreeMkdir \/ TreeTouch \/ TreeCp \/ TreeCat

Next ==
    \/ Return
    \/ Mkdir \/ Touch \/ Cd \/ Rm \/ Rename \/ Cp \/ Mv
    \/ Nwfiletxt \/ Appendtxt \/ Editline \/ Deline \/ Cat
    \/ Resolve

\* ------------------------------------------------------------- properties
HeapVars == <<name, is_file, parent, child, next, content, lists, current>>

\* The step is a call of the command op.
Called(op) == pc = "prompt" /\ pc' = "ran" /\ last'[1] = op

IsError(msg) == msg \notin {"", MsgCreated}

\* The nodes the root leads to through parent-to-children links.
Reach(h) == {root} \cup Below(h, root)

RECURSIVE above(_, _, _)
above(h, n, fuel) ==
    IF h.parent[n] = None \/ fuel = 0 THEN {}
    ELSE {h.parent[n]} \cup above(h, h.parent[n], fuel - 1)

\* The nodes met by following parent references from n.
Ancestors(h, n) == above(h, n, Cardinality(Nodes(h)))

\* C1: in every reachable state the cursor is a Directory that the root
\* reaches through parent-to-children links.
C1_CursorValid == ~is_file[current] /\ current \in Reach(Heap)

\* C2: in every reachable state no node is its own ancestor.
C2_Acyclic == \A n \in Nodes(Heap) : n \notin Ancestors(Heap, n)

\* C3: right after a successful rm of a path, that path and every path that
\* named the removed node or one of its descendants fail to resolve.
C3_RemovedPathsFail ==
    [][(Called("rm") /\ Len(last') = 2 /\ out'.msg = "") =>
        LET t == get_node_by_path(Heap, last'[2]) IN
        \A q \in Paths :
            get_node_by_path(Heap, q) \in ({t} \cup Below(Heap, t)) =>
                get_node_by_path(Heap', q) = None]_vars

\* C4: a call that reports an error leaves every field of every node, the
\* file contents and the cursor as they were.
C4_ErrorsChangeNothing ==
    [][(pc = "prompt" /\ pc' = "ran" /\ IsError(out'.msg)) =>
        UNCHANGED HeapVars]_vars

\* mv refused because the destination already holds the name: the last of
\* its checks.
C4_Witness == pc = "ran" /\ last[1] = "mv" /\ out.msg = MsgDstHasName

\* C5: in every reachable state the children of any one directory have
\* pairwise distinct names.
C5_SiblingNamesDistinct ==
    \A d \in Nodes(Heap) :
        \A x, y \in Kids(Heap, d) : x # y => name[x] # name[y]

\* A directory holds two children right after a successful mv or rename.
C5_Witness ==
    /\ pc = "ran" /\ last[1] \in {"mv", "rename"} /\ out.msg = ""
    /\ \E d \in Nodes(Heap) : Cardinality(Kids(Heap, d)) >= 2

RootIntact ==
    /\ ~is_file[root]
    /\ parent[root] = None
    /\ name[root] = <<"r", "o", "o", "t">>

RootMsg(op) ==
    CASE op = "rm" -> MsgRmRoot
      [] op = "rename" -> MsgRenameRoot
      [] op = "mv" -> MsgMvRoot

RootRefused ==
    \A op \in {"rm", "rename", "mv"} :
        (Called(op) /\ Len(last') >= 2
         /\ get_node_by_path(Heap, last'[2]) = root) =>
            (out'.msg = RootMsg(op) /\ UNCHANGED HeapVars)

\* C6: the root stays a Directory with no parent and its name, and rm,
\* rename and mv of a path that resolves to the root are refused with the
\* root message, changing nothing.
C6_RootProtected == []RootIntact /\ [][RootRefused]_vars

\* mv of "." refused at the root.
C6_Witness ==
    pc = "ran" /\ out.msg = MsgMvRoot /\ last[1] = "mv" /\ last[2] = Dot

\* The lines of a file node, or nothing for a directory or a freed node.
ContentOf(h, n) ==
    IF h.content[n] \in DOMAIN h.lists
    THEN [file |-> TRUE, lines |-> h.lists[h.content[n]]]
    ELSE [file |-> FALSE, lines |-> <<>>]

\* C8: after a successful mv the moved subtree has the children and the
\* file contents it had, the old path no longer resolves and the new path
\* (the destination directory plus the source's name, or the destination
\* as given when it named no node) resolves to the moved node.
C8_MvMoves ==
    [][(Called("mv") /\ Len(last') = 3 /\ out'.msg = "") =>
        LET src == get_node_by_path(Heap, last'[2])
            dst == get_node_by_path(Heap, last'[3])
            new_path == IF dst # None THEN last'[3] \o Slash \o name[src]
                        ELSE last'[3]
        IN  /\ \A n \in {src} \cup Below(Heap, src) :
                /\ Kids(Heap', n) = Kids(Heap, n)
                /\ ContentOf(Heap', n) = ContentOf(Heap, n)
            /\ get_node_by_path(Heap', last'[2]) = None
            /\ get_node_by_path(Heap', new_path) = src]_vars

\* The directory a call of mkdir or touch creates in: the cursor, or the
\* node its path argument names.
TargetOf(h, args) ==
    IF Len(args) = 2 THEN h.current ELSE get_node_by_path(h, args[2])

\* The call is mkdir or touch, into a directory, of a name a child of
\* that directory bears.
NameTaken(op) ==
    /\ Called(op) /\ Len(last') \in {2, 3}
    /\ TargetOf(Heap, last') # None
    /\ ~is_file[TargetOf(Heap, last')]
    /\ find_child(Heap, TargetOf(Heap, last'), last'[Len(last')]) # None

\* C9 as stated: mkdir or touch of a name a child of the target directory
\* bears is refused with the already-exists message, changing nothing.
C9_DuplicateRefused ==
    [][\A op \in {"mkdir", "touch"} :
        NameTaken(op) => (out'.msg = MsgExists /\ UNCHANGED HeapVars)]_vars

\* C9 amended: mkdir of a taken name is refused with the already-exists
\* message; touch of a taken name is refused with the already-exists
\* message when the name ends in ".txt" and with the not-.txt message
\* otherwise; nothing changes in either case.
C9_DuplicateRefusedTxt ==
    [][/\ NameTaken("mkdir") => (out'.msg = MsgExists /\ UNCHANGED HeapVars)
       /\ NameTaken("touch") =>
            /\ out'.msg = IF endswith(last'[Len(last')], <<".", "t", "x", "t">>)
                          THEN MsgExists ELSE MsgNotTxt
            /\ UNCHANGED HeapVars]_vars

\* touch refused because a directory of that name is there.
C9_Witness ==
    /\ pc = "ran" /\ last = <<"touch", F>> /\ out.msg = MsgExists
    /\ ~is_file[find_child(Heap, current, F)]

\* The node c of heap h2 and the node s of heap h1 have the same kind, the
\* same content and, name by name, the same children, all the way down;
\* named tells whether their own names must agree too.
RECURSIVE SameTree(_, _, _, _, _)
SameTree(h2, c, h1, s, named) ==
    /\ h2.is_file[c] = h1.is_file[s]
    /\ named => h2.name[c] = h1.name[s]
    /\ ContentOf(h2, c) = ContentOf(h1, s)
    /\ Cardinality(Kids(h2, c)) = Cardinality(Kids(h1, s))
    /\ \A k \in Kids(h1, s) :
        LET k2 == find_child(h2, c, h1.name[k]) IN
        k2 # None /\ SameTree(h2, k2, h1, k, TRUE)

\* The directory a successful cp puts the copy in.
CopyParent(h, args) ==
    IF get_node_by_path(h, args[3]) # None THEN get_node_by_path(h, args[3])
    ELSE get_node_by_path(h, dest_parts(args[3]).parent_path)

\* The copy cp has made, the first child of the directory it was put in,
\* is the source as it was before the call, the name of the top node aside.
CopyIsSnapshot ==
    (Called("cp") /\ Len(last') = 3 /\ out'.msg = "") =>
        LET src == get_node_by_path(Heap, last'[2])
            copy == child'[CopyParent(Heap, last')]
        IN  /\ copy \notin Nodes(Heap)
            /\ SameTree(Heap', copy, Heap, src, FALSE)

\* A successful content edit changes the lines of no file but the one its
\* path names.
EditsAreLocal ==
    \A op \in {"nwfiletxt", "appendtxt", "editline", "deline"} :
        (Called(op) /\ Len(last') >= 2 /\ out'.msg = "") =>
            \A n \in Nodes(Heap) \ {get_node_by_path(Heap, last'[2])} :
                ContentOf(Heap', n) = ContentOf(Heap, n)

\* No two nodes hold the same list object.
NoSharedLists ==
    \A n, m \in Nodes(Heap) :
        (n # m /\ content[n] # None) => content[n] # content[m]

\* C7: the copy cp makes has the kinds, names (the top one aside) and file
\* contents of the source at the call, shares no list with any other node,
\* and an edit of one file, in the copy or in the source, changes no other
\* file's lines.
C7_CopyIndependent ==
    []NoSharedLists /\ [][CopyIsSnapshot /\ EditsAreLocal]_vars

\* b is the copy of a: a line of b/f.txt has just been deleted and a/f.txt
\* still holds its two lines.
C7_Witness ==
    /\ pc = "ran" /\ out.msg = "" /\ last = <<"deline", BF, <<"1">>>>
    /\ get_node_by_path(Heap, AF) # None
    /\ ContentOf(Heap, get_node_by_path(Heap, AF)).lines = <<X, Y>>
    /\ ContentOf(Heap, get_node_by_path(Heap, BF)).lines = <<Y>>

\* The line numbers the numerals given to editline and deline denote.
LineNo ==
    (<<"0">> :> 0) @@ (<<"1">> :> 1) @@ (<<"2">> :> 2) @@ (<<"3">> :> 3)
    @@ (<<"-", "1">> :> (0 - 1))

\* C10: editline and deline of a file with a line number below 1 or above
\* the number of lines print the invalid-line message and change nothing;
\* with a line number k within the lines, editline puts the new text at
\* line k and keeps every other line and the count, and deline keeps the
\* lines before k and moves each later line up by one.
C10_LineEdits ==
    [][\A op \in {"editline", "deline"} :
        (/\ Called(op) /\ Len(last') >= 3
         /\ last'[3] \in DOMAIN LineNo
         /\ get_node_by_path(Heap, last'[2]) # None
         /\ is_file[get_node_by_path(Heap, last'[2])]) =>
            LET node == get_node_by_path(Heap, last'[2])
                k == LineNo[last'[3]]
                old == ContentOf(Heap, node).lines
                new == ContentOf(Heap', node).lines
            IN  IF k < 1 \/ k > Len(old)
                THEN out'.msg = MsgBadLine /\ UNCHANGED HeapVars
                ELSE /\ out'.msg = ""
                     /\ op = "editline" =>
                            /\ Len(new) = Len(old)
                            /\ new[k] = <<"z", " ", "y">>
                            /\ \A i \in 1..Len(old) : i # k => new[i] = old[i]
                     /\ op = "deline" =>
                            /\ Len(new) = Len(old) - 1
                            /\ \A i \in 1..(k - 1) : new[i] = old[i]
                            /\ \A i \in k..Len(new) : new[i] = old[i + 1]]_vars

\* Line 1 of two has just been deleted: the second line is now the first.
C10_Witness ==
    /\ pc = "ran" /\ out.msg = "" /\ last = <<"deline", F, <<"1">>>>
    /\ ContentOf(Heap, get_node_by_path(Heap, F)).lines = <<Y>>

\* The path formed from the directory a call of mkdir or touch creates in
\* and the name it is given.
CreatedPath(args) ==
    IF Len(args) = 2 THEN args[2] ELSE args[2] \o Slash \o args[3]

\* C11: touch into a directory, of a name that does not end in ".txt", is
\* refused with the not-.txt message and changes nothing; of a name that ends
\* in ".txt" and that no child of the directory bears, it succeeds and the
\* path formed from the directory and the name then resolves to a file with
\* no lines.
C11_TouchCreates ==
    [][(/\ Called("touch") /\ Len(last') \in {2, 3}
        /\ TargetOf(Heap, last') # None
        /\ ~is_file[TargetOf(Heap, last')]) =>
            LET file_name == last'[Len(last')]
                n == get_node_by_path(Heap', CreatedPath(last'))
            IN  IF ~endswith(file_name, <<".", "t", "x", "t">>)
                THEN out'.msg = MsgNotTxt /\ UNCHANGED HeapVars
                ELSE find_child(Heap, TargetOf(Heap, last'), file_name) = None =>
                        /\ out'.msg = MsgCreated
                        /\ n # None
                        /\ n \notin Nodes(Heap)
                        /\ ContentOf(Heap', n) = [file |-> TRUE, lines |-> <<>>]]_vars

\* How many times n is listed among the children of d.
Listed(h, d, n) ==
    Cardinality({i \in 1..Len(children(h, d)) : children(h, d)[i] = n})

\* C12: in every reachable state every node other than the root that the
\* root reaches has a parent, which is a directory, is listed exactly once
\* among the children of that parent and is listed among the children of no
\* other node.
C12_OneParent ==
    \A n \in Reach(Heap) \ {root} :
        /\ parent[n] \in Nodes(Heap) /\ ~is_file[parent[n]]
        /\ Listed(Heap, parent[n], n) = 1
        /\ \A d \in Nodes(Heap) \ {parent[n]} : Listed(Heap, d, n) = 0

\* A successful mv has just put a node below a directory other than the
\* root, beside nothing or a sibling.
C12_Witness ==
    /\ pc = "ran" /\ out.msg = "" /\ last[1] = "mv"
    /\ \E n \in Reach(Heap) : parent[n] \notin {None, root}

\* The call is a successful rename, or a successful mv whose destination
\* names no node and whose parent path names the parent of the source.
RenameForm ==
    \/ Called("rename") /\ Len(last') = 3 /\ out'.msg = ""
    \/ /\ Called("mv") /\ Len(last') = 3 /\ out'.msg = ""
       /\ get_node_by_path(Heap, last'[3]) = None
       /\ get_node_by_path(Heap, dest_parts(last'[3]).parent_path)
            = parent[get_node_by_path(Heap, last'[2])]

\* C13: a successful rename, or mv in its rename form, leaves the node its
\* parent, its children, its content and its place in the listing of its
\* parent's children.
C13_OnlyName ==
    [][RenameForm =>
        LET n == get_node_by_path(Heap, last'[2]) IN
        /\ parent'[n] = parent[n]
        /\ children(Heap', n) = children(Heap, n)
        /\ ContentOf(Heap', n) = ContentOf(Heap, n)
        /\ children(Heap', parent[n]) = children(Heap, parent[n])]_vars

\* C14: a call of get_node_by_path changes no field of any node, no file
\* content and not the cursor; given a chain of ".." segments that starts at
\* the root (an absolute path, or a relative one with the cursor at the
\* root), it returns the root.
C14_ResolvePure ==
    [][Called("resolve") =>
        /\ UNCHANGED HeapVars
        /\ (/\ last'[2] \in DotDotChains
            /\ startswith(last'[2], "/") \/ current = root) =>
                out'.node = root]_vars

\* "../.." has just been resolved with the cursor at the root, in a tree
\* that holds a directory below a directory.
C14_Witness ==
    /\ pc = "ran" /\ last = <<"resolve", DotDot \o Slash \o DotDot>>
    /\ current = root /\ out.node = root
    /\ \E n \in Reach(Heap) : parent[n] \notin {None, root}

\* The directory c of heap h2 and the directory s of heap h1 list the same
\* names in the same order, and so does every directory below s with the
\* directory of the same name below c.
RECURSIVE SameListing(_, _, _, _)
SameListing(h2, c, h1, s) ==
    /\ ls_command(h2, c) = ls_command(h1, s)
    /\ \A k \in Kids(h1, s) :
        ~h1.is_file[k] =>
            LET k2 == find_child(h2, c, h1.name[k]) IN
            k2 # None /\ SameListing(h2, k2, h1, k)

\* C15: after a successful cp the copy and every directory below it list
\* their children in the order in which the source and the corresponding
\* directory below it listed theirs before the call.
C15_CopyKeepsOrder ==
    [][(Called("cp") /\ Len(last') = 3 /\ out'.msg = "") =>
        SameListing(Heap', child'[CopyParent(Heap, last')],
                    Heap, get_node_by_path(Heap, last'[2]))]_vars

\* C16: in every reachable state a file has no child and is the parent of
\* no node, a directory has no content, and a path that names a file
\* followed by one more name resolves to nothing.
C16_FilesAreLeaves ==
    /\ \A n \in Nodes(Heap) :
        /\ is_file[n] => child[n] = None
        /\ ~is_file[n] => content[n] = None
        /\ parent[n] # None => ~is_file[parent[n]]
    /\ \A q \in Paths, nm \in {A, B, F} :
        (get_node_by_path(Heap, q) # None /\ is_file[get_node_by_path(Heap, q)])
            => get_node_by_path(Heap, q \o Slash \o nm) = None

\* mkdir below the file f.txt has just been refused.
C16_Witness ==
    /\ pc = "ran" /\ last = <<"mkdir", F, A>> /\ out.msg = MsgNotDir
    /\ get_node_by_path(Heap, F) # None
    /\ is_file[get_node_by_path(Heap, F)]

\* C17: in every reachable state the walk of get_full_path up from the
\* cursor ends, the walk along next through the children of any node ends
\* (so that path resolution ends), and the recursion of the cp or rm that
\* has just run came to its end.
C17_AllTerminate ==
    /\ get_full_path(Heap, current).ok
    /\ \A d \in Nodes(Heap) : Len(children(Heap, d)) <= Cardinality(Nodes(Heap))
    /\ out.msg # MsgRecursion

\* C18: in every reachable state where get_full_path returns for the
\* cursor, the path it returns resolves to the cursor.
C18_PathRoundTrip ==
    get_full_path(Heap, current).ok =>
        get_node_by_path(Heap, get_full_path(Heap, current).path) = current

\* C19: a successful cp allocates as many nodes as the source and the
\* nodes below it were before the call, all of them the copy and the nodes
\* below it; it leaves the cursor and every field and the content of every
\* node there was as they were, but for the child reference of the
\* directory that receives the copy, which now leads to the copy and from
\* it, along next, to the children that directory had.
C19_CopyAddsOnly ==
    [][(Called("cp") /\ Len(last') = 3 /\ out'.msg = "") =>
        LET src == get_node_by_path(Heap, last'[2])
            dst == CopyParent(Heap, last')
            copy == child'[dst]
            old == Nodes(Heap)
            new == Nodes(Heap') \ old
        IN  /\ Cardinality(new) = Cardinality({src} \cup Below(Heap, src))
            /\ new = {copy} \cup Below(Heap', copy)
            /\ next'[copy] = child[dst]
            /\ current' = current
            /\ \A n \in old :
                /\ name'[n] = name[n] /\ is_file'[n] = is_file[n]
                /\ parent'[n] = parent[n] /\ next'[n] = next[n]
                /\ ContentOf(Heap', n) = ContentOf(Heap, n)
                /\ n # dst => child'[n] = child[n]]_vars

\* a, which holds b, has just been copied into a/b: the copy holds a copy
\* of b, and that one holds nothing.
C19_Witness ==
    /\ pc = "ran" /\ out.msg = "" /\ last = <<"cp", A, AB>>
    /\ get_node_by_path(Heap, AB \o Slash \o AB) # None
    /\ child[get_node_by_path(Heap, AB \o Slash \o AB)] = None

\* C20: in every reachable state no node that a successful rm has detached
\* (its target or a node that was below it) is reached from the root.
C20_RemovedStayGone == removed \cap Reach(Heap) = {}

Spec == Init /\ [][Next]_vars

\* The specification that copies a directory with its file and edits both.
SpecCopy == Init /\ [][NextCopy]_vars

\* The specification that builds a directory with two children and copies it.
SpecTree == Init /\ [][NextTree]_vars
====
